---- MODULE Spec2Model ----
(***************************************************************************)
(* Smart Travel Planner (src/script.js): the itinerary state held by the   *)
(* page (places, markers, the rendered day lists, the current trip key     *)
(* and meta data), localStorage, and the requests in flight: the           *)
(* handlePlan calls suspended at a fetch and the description fetches.      *)
(*                                                                         *)
(* Conventions.  Strings that the code concatenates or trims are           *)
(* sequences of tokens, so that template literals are \o.  null and the    *)
(* empty string are both represented by <<>> and null/0 day counts by 0:   *)
(* the code only ever tests these values for truthiness.  So are the       *)
(* destination and the day count that are undefined after loadTrip read    *)
(* them from an object without these properties.  The JavaScript value     *)
(* undefined (and NaN) of a day index or colour is Undefined.              *)
(* Coordinates lie on one meridian, so a place is its latitude in whole    *)
(* degrees, and haversine is the distance along that meridian in units of  *)
(* one degree of arc.  lastOp records which handler ran last, what it was  *)
(* given and, for the visited toggle, what it found.                       *)
(***************************************************************************)
EXTENDS Bags, FiniteSets, Integers, Sequences, TLC

VARIABLES places, markers, dom, currentUser, currentTripKey, currentDest,
          currentDays, currentMode, modeSelect, localStorage, requests, lastOp

vars == <<places, markers, dom, currentUser, currentTripKey, currentDest,
          currentDays, currentMode, modeSelect, localStorage, requests, lastOp>>

(* ---------------------------------------------------------------------- *)
(* Bounds                                                                  *)
(* ---------------------------------------------------------------------- *)
PlanDays == 2
MaxNodes == 3
MaxInflight == 1
BuildDays == 5
BuildNodes == 10
LongNodes == 40
EditDays == 3
EditNodes == 3
MaxFetches == 2
KeyNodes == 1

PerDayCap == 5
PaletteSize == 8

\* A trip of one day more than the palette has colours
ColorDays == PaletteSize + 1

Undefined == -1

Users == {<<"ann">>}
Dests == {<<"Rome">>}
Modes == {"driving", "walking"}

(* ---------------------------------------------------------------------- *)
(* Small helpers                                                           *)
(* ---------------------------------------------------------------------- *)
Min(a, b) == IF a <= b THEN a ELSE b

Abs(a) == IF a < 0 THEN 0 - a ELSE a

\* Math.ceil(a / b) for a >= 0, b >= 1
Ceil(a, b) == (a + b - 1) \div b

Range(s) == {s[i] : i \in 1..Len(s)}

Digit == <<"1", "2", "3", "4", "5", "6", "7", "8", "9">>

IsDigit(t) == t = "0" \/ \E n \in 1..9 : Digit[n] = t

DigitVal(t) == IF t = "0" THEN 0 ELSE CHOOSE n \in 1..9 : Digit[n] = t

\* The subsequence of s made of the elements that satisfy Test
RECURSIVE SelectFrom(_, _, _)
SelectFrom(s, i, keep) ==
    IF i > Len(s) THEN <<>>
    ELSE (IF s[i] \in keep THEN <<s[i]>> ELSE <<>>) \o SelectFrom(s, i + 1, keep)

\* The function m without key k (delete m[k])
Without(m, k) == [x \in DOMAIN m \ {k} |-> m[x]]

\* The function m with key k set to v (m[k] = v)
With(m, k, v) == [x \in DOMAIN m \cup {k} |-> IF x = k THEN v ELSE m[x]]

(* ---------------------------------------------------------------------- *)
(* Input conversions                                                       *)
(* ---------------------------------------------------------------------- *)
RECURSIVE TrimLeft(_)
TrimLeft(s) == IF s # <<>> /\ Head(s) = " " THEN TrimLeft(Tail(s)) ELSE s

RECURSIVE TrimRight(_)
TrimRight(s) ==
    IF s # <<>> /\ s[Len(s)] = " " THEN TrimRight(SubSeq(s, 1, Len(s) - 1)) ELSE s

\* String.prototype.trim
Trim(s) == TrimRight(TrimLeft(s))

\* The value of the longest prefix of s made of decimal digits, acc so far
RECURSIVE DigitPrefix(_, _, _)
DigitPrefix(s, i, acc) ==
    IF i <= Len(s) /\ IsDigit(s[i])
    THEN DigitPrefix(s, i + 1, [nan |-> FALSE, val |-> acc.val * 10 + DigitVal(s[i])])
    ELSE acc

\* parseInt(s, 10): leading blanks skipped, an optional sign, then digits up to
\* the first other character; NaN when there is no digit.
ParseInt(s) ==
    LET t == TrimLeft(s)
        signed == t # <<>> /\ Head(t) \in {"-", "+"}
        body == IF signed THEN Tail(t) ELSE t
        r == DigitPrefix(body, 1, [nan |-> TRUE, val |-> 0])
    IN  IF signed /\ Head(t) = "-" /\ ~r.nan THEN [nan |-> FALSE, val |-> 0 - r.val]
        ELSE r

\* `${currentUser}_trip_${currentDest}_${currentDays}`
TripKey(user, dest, days) == user \o <<"_trip_">> \o dest \o <<"_", ToString(days)>>

\* `${currentUser}_lastTrip`
LastTripKey(user) == user \o <<"_lastTrip">>

CurrentUserKey == <<"currentUser">>

UsersKey == <<"users">>

\* window.btoa of the passwords that are typed
Btoa(password) ==
    IF password = <<"pw">> THEN <<"cHc=">>
    ELSE IF password = <<"other">> THEN <<"b3RoZXI=">>
    ELSE <<>>

(* ---------------------------------------------------------------------- *)
(* JSON                                                                    *)
(* ---------------------------------------------------------------------- *)
\* JSON.stringify of one place: a property whose value is undefined is left out
StringifyPlace(p) ==
    IF p.day = Undefined
    THEN [id |-> p.id, lat |-> p.lat, visited |-> p.visited,
          descriptionLoaded |-> p.descriptionLoaded, description |-> p.description]
    ELSE [id |-> p.id, lat |-> p.lat, day |-> p.day, visited |-> p.visited,
          descriptionLoaded |-> p.descriptionLoaded, description |-> p.description]

\* A place parsed with its visited flag reset
ParsePlaceUnvisited(j) ==
    [id |-> j.id, lat |-> j.lat,
     day |-> IF "day" \in DOMAIN j THEN j.day ELSE Undefined,
     visited |-> FALSE,
     descriptionLoaded |-> j.descriptionLoaded, description |-> j.description]

\* JSON.parse of one place: reading a property that is left out gives undefined
ParsePlace(j) ==
    [id |-> j.id, lat |-> j.lat,
     day |-> IF "day" \in DOMAIN j THEN j.day ELSE Undefined,
     visited |-> j.visited,
     descriptionLoaded |-> j.descriptionLoaded, description |-> j.description]

\* JSON.stringify({ places, dest, days, mode })
StringifyTrip(data) ==
    [places |-> [i \in 1..Len(data.places) |-> StringifyPlace(data.places[i])],
     dest |-> data.dest, days |-> data.days, mode |-> data.mode]

\* A JSON value that is not an array and has no forEach: the number 5.  It
\* is wrapped so that it can be compared with the arrays places holds
NotAnArray == <<[number |-> 5]>>

\* JSON.parse of a stored string that parses, read as loadTrip reads it:
\* data.places, data.dest, data.days and data.mode.  A property the object
\* does not have is undefined: <<>> for places (which `|| []` makes []) and
\* for dest, 0 for days, "" for mode (which `|| 'driving'` makes 'driving')
ParseTrip(str) ==
    [places |-> IF "places" \notin DOMAIN str THEN <<>>
                ELSE IF str.places = NotAnArray THEN NotAnArray
                ELSE [i \in 1..Len(str.places) |-> ParsePlace(str.places[i])],
     dest |-> IF "dest" \in DOMAIN str THEN str.dest ELSE <<>>,
     days |-> IF "days" \in DOMAIN str THEN str.days ELSE 0,
     mode |-> IF "mode" \in DOMAIN str THEN str.mode ELSE ""]

\* A stored string that JSON.parse rejects with a SyntaxError
Corrupted == [text |-> "{\"places\":[{"]

\* A stored string that parses to an object with none of the properties of a
\* trip: {"version":1}.  loadTrip reads the same from {}, [] and 5
NotATrip == [version |-> 1]

\* A stored string that parses to an object whose places is not an array:
\* {"places":5}
PlacesNotArray == [places |-> NotAnArray]

\* The malformed payloads: the text that does not parse and the two that
\* parse to something that is not a trip
Malformed == {Corrupted, NotATrip, PlacesNotArray}

\* JSON.parse(str) returns
IsJSON(str) == "text" \notin DOMAIN str

\* JSON.stringify({ dest, days, mode })
StringifyMeta(dest, days, mode) == [dest |-> dest, days |-> days, mode |-> mode]

(* ---------------------------------------------------------------------- *)
(* Distance and the build step of handlePlan                               *)
(* ---------------------------------------------------------------------- *)
\* Great-circle distance of two points of one meridian, in degrees of arc
Haversine(lat1, lat2) == Abs(lat2 - lat1)

\* elements.filter(el => el.tags && el.tags.name)
RECURSIVE FilterNamed(_)
FilterNamed(elements) ==
    IF elements = <<>> THEN <<>>
    ELSE (IF Head(elements).named THEN <<Head(elements)>> ELSE <<>>)
         \o FilterNamed(Tail(elements))

\* el.distance = haversine(lat, lon, el.lat, el.lon)
WithDistance(elements, lat) ==
    [i \in 1..Len(elements) |->
        [id |-> elements[i].id, lat |-> elements[i].lat,
         distance |-> Haversine(lat, elements[i].lat)]]

\* The comparator reversed: (a, b) => b.distance - a.distance
InsertByDistanceReversed(s, x) ==
    LET n == Cardinality({i \in 1..Len(s) : s[i].distance >= x.distance})
    IN  SubSeq(s, 1, n) \o <<x>> \o SubSeq(s, n + 1, Len(s))

\* x put into the sorted sequence s behind every element that is not farther
InsertByDistance(s, x) ==
    LET n == Cardinality({i \in 1..Len(s) : s[i].distance <= x.distance})
    IN  SubSeq(s, 1, n) \o <<x>> \o SubSeq(s, n + 1, Len(s))

\* elements.sort((a, b) => a.distance - b.distance): ascending and stable
RECURSIVE SortByDistance(_)
SortByDistance(elements) ==
    IF elements = <<>> THEN <<>>
    ELSE InsertByDistance(SortByDistance(SubSeq(elements, 1, Len(elements) - 1)),
                          elements[Len(elements)])

\* Every day filled to the cap before the next one: Math.floor(index / 5)
DayIndexFillToCap(index, maxPOIs, days) == index \div PerDayCap

\* Math.floor(index / Math.ceil(maxPOIs / days))
DayIndex(index, maxPOIs, days) == index \div Ceil(maxPOIs, days)

\* The build without the cut to five a day: maxPOIs = elements.length
BuildPlacesUncut(elements, lat, days) ==
    LET sorted == SortByDistance(WithDistance(FilterNamed(elements), lat))
        maxPOIs == Len(sorted)
    IN  [i \in 1..maxPOIs |->
            [id |-> ToString(sorted[i].id), lat |-> sorted[i].lat,
             day |-> DayIndex(i - 1, maxPOIs, days), visited |-> FALSE,
             descriptionLoaded |-> FALSE, description |-> ""]]

\* Lines 152-174: filter, rank, cut to five a day, split into days
BuildPlaces(elements, lat, days) ==
    LET sorted == SortByDistance(WithDistance(FilterNamed(elements), lat))
        maxPOIs == Min(Len(sorted), days * PerDayCap)
        chosen == SubSeq(sorted, 1, maxPOIs)
    IN  [i \in 1..maxPOIs |->
            [id |-> ToString(chosen[i].id), lat |-> chosen[i].lat,
             day |-> DayIndex(i - 1, maxPOIs, days), visited |-> FALSE,
             descriptionLoaded |-> FALSE, description |-> ""]]

(* ---------------------------------------------------------------------- *)
(* The itinerary view and the markers                                      *)
(* ---------------------------------------------------------------------- *)
\* The ids of the places of day d, in the order of places (lines 221-246)
RECURSIVE ItemsOfDay(_, _)
ItemsOfDay(pl, d) ==
    IF pl = <<>> THEN <<>>
    ELSE (IF Head(pl).day = d THEN <<Head(pl).id>> ELSE <<>>) \o ItemsOfDay(Tail(pl), d)

\* createItineraryUI: one container per day, each place appended to the list
\* of its day; a place whose day has no list is not shown.
CreateItineraryUI(pl, days) ==
    IF days < 1 THEN <<>>
    ELSE [c \in 1..days |-> [dayIndex |-> c - 1, items |-> ItemsOfDay(pl, c - 1)]]

\* dayColors[p.day % dayColors.length], as an index into the palette
DayColor(day) == IF day < 0 THEN Undefined ELSE day % PaletteSize

\* createMarkers: all markers dropped, then one per place that is not visited
RECURSIVE CreateMarkersFrom(_, _)
CreateMarkersFrom(pl, m) ==
    IF pl = <<>> THEN m
    ELSE CreateMarkersFrom(Tail(pl),
            IF Head(pl).visited THEN m ELSE With(m, Head(pl).id, DayColor(Head(pl).day)))

CreateMarkers(pl) == CreateMarkersFrom(pl, <<>>)

\* updateMarkerColors without the recolouring: markers of visited places are
\* removed, the others are left as they are
RECURSIVE UpdateMarkerColorsRemoveOnly(_, _)
UpdateMarkerColorsRemoveOnly(pl, m) ==
    IF pl = <<>> THEN m
    ELSE LET p == Head(pl)
         IN  UpdateMarkerColorsRemoveOnly(Tail(pl),
                IF p.id \in DOMAIN m /\ p.visited THEN Without(m, p.id) ELSE m)

\* updateMarkerColors: the marker a place has is removed when the place is
\* visited and recoloured otherwise; a place without marker is skipped.
RECURSIVE UpdateMarkerColors(_, _)
UpdateMarkerColors(pl, m) ==
    IF pl = <<>> THEN m
    ELSE LET p == Head(pl)
         IN  UpdateMarkerColors(Tail(pl),
                IF p.id \in DOMAIN m
                THEN (IF p.visited THEN Without(m, p.id) ELSE With(m, p.id, DayColor(p.day)))
                ELSE m)

\* The first place taken when no place has the id
FindPlaceOrFirst(pl, id) ==
    IF \E i \in 1..Len(pl) : pl[i].id = id
    THEN CHOOSE i \in 1..Len(pl) : pl[i].id = id /\ \A j \in 1..(i - 1) : pl[j].id # id
    ELSE IF pl # <<>> THEN 1 ELSE 0

\* places.find(pl => pl.id === id): the index of the first match, 0 if none
FindPlace(pl, id) ==
    IF \E i \in 1..Len(pl) : pl[i].id = id
    THEN CHOOSE i \in 1..Len(pl) : pl[i].id = id /\ \A j \in 1..(i - 1) : pl[j].id # id
    ELSE 0

(* ---------------------------------------------------------------------- *)
(* Persistence                                                             *)
(* ---------------------------------------------------------------------- *)
\* saveTrip with its guard inverted: nothing is written for a trip that has a key
SaveTripGuardInverted(ls, key, pl, dest, days, mode) ==
    IF key # <<>> THEN ls
    ELSE With(ls, key, StringifyTrip([places |-> pl, dest |-> dest, days |-> days, mode |-> mode]))

\* saveTrip
SaveTrip(ls, key, pl, dest, days, mode) ==
    IF key = <<>> THEN ls
    ELSE With(ls, key, StringifyTrip([places |-> pl, dest |-> dest, days |-> days, mode |-> mode]))

\* The state of a page that has just been loaded (lines 35-42)
FreshPage ==
    [places |-> <<>>, markers |-> <<>>, dom |-> <<>>, key |-> <<>>, dest |-> <<>>,
     days |-> 0, mode |-> "driving", modeSelect |-> "driving"]

\* x || 'driving'
OrDriving(x) == IF x = "" THEN "driving" ELSE x

\* loadTrip: nothing is assigned when there is no key, when nothing is stored
\* under it, and when JSON.parse throws (caught at lines 448-450).  Whatever
\* parses is assigned at lines 439-442 and shown in the inputs.  When places
\* is an array both views are rebuilt.  When it is not, places.forEach
\* throws into the same catch: in createMarkers, after markers was emptied,
\* if createItineraryUI returned early for a falsy day count (line 201), or
\* else in createItineraryUI, after the empty day lists were built and
\* before createMarkers is called
LoadTrip(pg, ls) ==
    IF pg.key = <<>> THEN pg
    ELSE IF pg.key \notin DOMAIN ls THEN pg
    ELSE IF ~IsJSON(ls[pg.key]) THEN pg
    ELSE LET data == ParseTrip(ls[pg.key])
             assigned == [pg EXCEPT !.places = data.places,
                                    !.dest = data.dest,
                                    !.days = data.days,
                                    !.mode = OrDriving(data.mode),
                                    !.modeSelect = OrDriving(data.mode)]
         IN  IF data.places # NotAnArray
             THEN [assigned EXCEPT !.dom = CreateItineraryUI(data.places, data.days),
                                   !.markers = CreateMarkers(data.places)]
             ELSE IF data.days < 1
             THEN [assigned EXCEPT !.dom = <<>>, !.markers = <<>>]
             ELSE [assigned EXCEPT !.dom = CreateItineraryUI(<<>>, data.days)]

\* The restore of the last trip at login (lines 91-108) and at page load
\* (lines 484-502)
RestoreLastTrip(pg, user, ls) ==
    IF LastTripKey(user) \notin DOMAIN ls THEN pg
    ELSE LET meta == ls[LastTripKey(user)]
         IN  LoadTrip([pg EXCEPT !.dest = meta.dest,
                                 !.days = meta.days,
                                 !.mode = OrDriving(meta.mode),
                                 !.modeSelect = OrDriving(meta.mode),
                                 !.key = TripKey(user, meta.dest, meta.days)], ls)

\* The page variables set from a page record
SetPage(pg) ==
    /\ places' = pg.places
    /\ markers' = pg.markers
    /\ dom' = pg.dom
    /\ currentTripKey' = pg.key
    /\ currentDest' = pg.dest
    /\ currentDays' = pg.days
    /\ currentMode' = pg.mode
    /\ modeSelect' = pg.modeSelect

\* The page variables as a page record
PageNow ==
    [places |-> places, markers |-> markers, dom |-> dom, key |-> currentTripKey,
     dest |-> currentDest, days |-> currentDays, mode |-> currentMode,
     modeSelect |-> modeSelect]

(* ---------------------------------------------------------------------- *)
(* The provider's answers                                                  *)
(* ---------------------------------------------------------------------- *)
\* The OpenStreetMap node i: it lies at latitude i, and every third node
\* carries no name tag.
Element(i) == [id |-> i, lat |-> i, named |-> (i % 3 # 0)]

Ascending(n) == [i \in 1..n |-> i]

Descending(n) == [i \in 1..n |-> n + 1 - i]

\* The element lists Overpass may answer with, out of the nodes 1..n
Responses(n) ==
    {[i \in 1..Len(ids) |-> Element(ids[i])] :
        ids \in {SelectFrom(order, 1, S) : order \in {Ascending(n), Descending(n)},
                                           S \in SUBSET (1..n)}}

PlanResponses == Responses(MaxNodes)

\* The nodes 1..m, nearest first or farthest first, for every m up to n
LongResponses(n) ==
    {[i \in 1..m |-> Element(IF up THEN i ELSE m + 1 - i)] : m \in 1..n, up \in BOOLEAN}

BuildResponses == Responses(BuildNodes) \cup LongResponses(LongNodes)

EditResponses == Responses(EditNodes)

\* The latitudes geocoding may answer with: south of all nodes, or amid them
Origins(n) == {0, n \div 2 + 1}

\* What the user may have typed into the destination field
DestInputs == {<<>>, <<" ">>} \cup {<<" ">> \o d \o <<" ">> : d \in Dests}

\* What the user may have typed into the user name field, for the names us
UserInputs(us) == {<<" ">>} \cup {u \o <<" ">> : u \in us}

\* What the user may have typed into the password field: nothing, or the
\* password every user registers with and keeps to
Passwords == {<<>>, <<"pw">>}

\* What the user may have typed into the stay length field: nothing, no
\* number, a number below 1, or one of the day counts ds
StayInputs(ds) ==
    {<<>>, <<"x">>, <<"0">>, <<"-", "1">>} \cup {<<" ", Digit[d], ".", "5">> : d \in ds}

(* ---------------------------------------------------------------------- *)
(* Initial state: the page loaded for the first time, nothing stored       *)
(* ---------------------------------------------------------------------- *)
Init ==
    /\ places = <<>>
    /\ markers = <<>>
    /\ dom = <<>>
    /\ currentUser = <<>>
    /\ currentTripKey = <<>>
    /\ currentDest = <<>>
    /\ currentDays = 0
    /\ currentMode = "driving"
    /\ modeSelect = "driving"
    /\ localStorage = <<>>
    /\ requests = EmptyBag
    /\ lastOp = [op |-> "init"]

(* ---------------------------------------------------------------------- *)
(* Session handling                                                        *)
(* ---------------------------------------------------------------------- *)
\* JSON.parse(localStorage.getItem('users') || '{}'): user name -> btoa(password)
Registry(ls) == IF UsersKey \in DOMAIN ls THEN ls[UsersKey] ELSE <<>>

\* What localStorage holds once user has logged in for the first time, with
\* the password "pw", on a browser where nothing was stored
LoggedInStore(user) ==
    With(With(<<>>, UsersKey, With(<<>>, user, Btoa(<<"pw">>))), CurrentUserKey, user)

\* handleLogin (lines 62-109): both fields are required; an unknown user name
\* is registered with the password, a known one must give the registered
\* password; then the last trip of the user is restored.
HandleLogin(usernameInput, password) ==
    /\ currentUser = <<>>
    /\ LET username == Trim(usernameInput)
           users == Registry(localStorage)
       IN  IF username = <<>> \/ password = <<>>
           THEN /\ lastOp' = [op |-> "refused"]
                /\ UNCHANGED <<places, markers, dom, currentUser, currentTripKey,
                               currentDest, currentDays, currentMode, modeSelect,
                               localStorage>>
           ELSE IF username \in DOMAIN users /\ users[username] # Btoa(password)
           THEN /\ lastOp' = [op |-> "refused"]
                /\ UNCHANGED <<places, markers, dom, currentUser, currentTripKey,
                               currentDest, currentDays, currentMode, modeSelect,
                               localStorage>>
           ELSE LET registered ==
                        IF username \in DOMAIN users THEN localStorage
                        ELSE With(localStorage, UsersKey,
                                  With(users, username, Btoa(password)))
                    ls == With(registered, CurrentUserKey, username)
                IN  /\ currentUser' = username
                    /\ localStorage' = ls
                    /\ SetPage(RestoreLastTrip(PageNow, username, ls))
                    /\ lastOp' = [op |-> "load"]
    /\ requests' = requests

\* The page (re)loaded: lines 35-42 and 479-503. Requests in flight die with
\* the old page.
PageLoad(ls) ==
    LET user == IF CurrentUserKey \in DOMAIN ls THEN ls[CurrentUserKey] ELSE <<>>
    IN  /\ currentUser' = user
        /\ localStorage' = ls
        /\ SetPage(IF user # <<>> THEN RestoreLastTrip(FreshPage, user, ls) ELSE FreshPage)
        /\ requests' = EmptyBag

\* The document is replaced: the user reloads the page, or the reload that
\* handleLogout asked for takes place
Reload ==
    /\ PageLoad(localStorage)
    /\ lastOp' = [op |-> "load"]

\* handleLogout (lines 112-115): the key is removed and location.reload() is
\* called; the page stays as it is, with its variables, its handlers and its
\* requests in flight, until the document is replaced (Reload).
HandleLogout ==
    /\ currentUser # <<>>
    /\ localStorage' = Without(localStorage, CurrentUserKey)
    /\ lastOp' = [op |-> "other"]
    /\ UNCHANGED <<places, markers, dom, currentUser, currentTripKey, currentDest,
                   currentDays, currentMode, modeSelect, requests>>

\* The change listener of the travel mode select (lines 470-476)
ChangeMode(m) ==
    /\ currentUser # <<>>
    /\ m # modeSelect
    /\ modeSelect' = m
    /\ currentMode' = m
    /\ localStorage' =
          IF currentUser # <<>> /\ currentDest # <<>>
          THEN With(localStorage, LastTripKey(currentUser),
                    StringifyMeta(currentDest, currentDays, m))
          ELSE localStorage
    /\ lastOp' = [op |-> "other"]
    /\ UNCHANGED <<places, markers, dom, currentUser, currentTripKey, currentDest,
                   currentDays, requests>>

(* ---------------------------------------------------------------------- *)
(* handlePlan: validation, two awaited fetches, then the build             *)
(* ---------------------------------------------------------------------- *)
\* The handlePlan calls among the requests in flight
PlansInFlight(b) == [r \in {x \in BagToSet(b) : x.stage # "summary"} |-> b[r]]

\* The check of the day count without `!days`: NaN passes `days < 1`
PlanRejectedUnlessNaN(dest, days) == dest = <<>> \/ (~days.nan /\ days.val < 1)

\* Lines 122-129: `!dest`, then `!days || days < 1`
PlanRejected(dest, days) == dest = <<>> \/ days.nan \/ days.val = 0 \/ days.val < 1

\* Lines 119-130: the inputs are read and checked; a valid request goes on to
\* await the geocoder.
HandlePlan(destInput, stayInput) ==
    /\ currentUser # <<>>
    /\ LET dest == Trim(destInput)
           days == ParseInt(stayInput)
           mode == modeSelect
       IN  IF PlanRejected(dest, days)
           THEN /\ requests' = requests
                /\ lastOp' = [op |-> "rejected"]
           ELSE /\ BagCardinality(PlansInFlight(requests)) < MaxInflight
                /\ requests' = requests (+) SetToBag({[dest |-> dest, days |-> days.val,
                                  mode |-> mode, stage |-> "geocode", lat |-> 0]})
                /\ lastOp' = [op |-> "other"]
    /\ UNCHANGED <<places, markers, dom, currentUser, currentTripKey, currentDest,
                   currentDays, currentMode, modeSelect, localStorage>>

\* Lines 134-140 and 189-191: the geocoder's fetch throws, its answer does not
\* parse, or it is empty; handlePlan returns.
GeocodeFails(r) ==
    /\ r \in BagToSet(requests)
    /\ r.stage = "geocode"
    /\ requests' = requests (-) SetToBag({r})
    /\ lastOp' = [op |-> "failed", stage |-> r.stage]
    /\ UNCHANGED <<places, markers, dom, currentUser, currentTripKey, currentDest,
                   currentDays, currentMode, modeSelect, localStorage>>

\* Lines 141-150: the geocoder answers; handlePlan goes on to await Overpass.
GeocodeFinds(r, lat) ==
    /\ r \in BagToSet(requests)
    /\ r.stage = "geocode"
    /\ requests' = (requests (-) SetToBag({r}))
                       (+) SetToBag({[r EXCEPT !.stage = "overpass", !.lat = lat]})
    /\ lastOp' = [op |-> "other"]
    /\ UNCHANGED <<places, markers, dom, currentUser, currentTripKey, currentDest,
                   currentDays, currentMode, modeSelect, localStorage>>

\* The itinerary cleared when the request fails
OverpassFailsClears(r) ==
    /\ r \in BagToSet(requests)
    /\ r.stage = "overpass"
    /\ requests' = requests (-) SetToBag({r})
    /\ places' = <<>>
    /\ markers' = <<>>
    /\ dom' = CreateItineraryUI(<<>>, currentDays)
    /\ lastOp' = [op |-> "failed", stage |-> r.stage]
    /\ UNCHANGED <<currentUser, currentTripKey, currentDest, currentDays, currentMode,
                   modeSelect, localStorage>>

\* Lines 150-151 and 189-191: the Overpass fetch throws or does not parse.
OverpassFails(r) ==
    /\ r \in BagToSet(requests)
    /\ r.stage = "overpass"
    /\ requests' = requests (-) SetToBag({r})
    /\ lastOp' = [op |-> "failed", stage |-> r.stage]
    /\ UNCHANGED <<places, markers, dom, currentUser, currentTripKey, currentDest,
                   currentDays, currentMode, modeSelect, localStorage>>

\* The requests b once places has been assigned a new array: the places the
\* summary fetches in flight will write to are objects of the old array.
Detached(b) ==
    LET old(x) == IF x.stage = "summary" THEN [x EXCEPT !.detached = FALSE] ELSE x
        new(x) == IF x.stage = "summary" THEN [x EXCEPT !.detached = TRUE] ELSE x
        count(x) == IF x \in BagToSet(b) THEN b[x] ELSE 0
    IN  [y \in {new(x) : x \in BagToSet(b)} |->
            IF y.stage = "summary" THEN count(y) + count(old(y)) ELSE count(y)]

\* Lines 152-188: Overpass answers and the trip is built, stored and shown. The
\* places are new objects (chosen.map, line 161).
OverpassAnswers(r, elements) ==
    /\ r \in BagToSet(requests)
    /\ r.stage = "overpass"
    /\ requests' = Detached(requests (-) SetToBag({r}))
    /\ LET pl == BuildPlaces(elements, r.lat, r.days)
           key == TripKey(currentUser, r.dest, r.days)
           ls == With(localStorage, LastTripKey(currentUser),
                      StringifyMeta(r.dest, r.days, r.mode))
       IN  /\ places' = pl
           /\ currentDest' = r.dest
           /\ currentDays' = r.days
           /\ currentMode' = r.mode
           /\ currentTripKey' = key
           /\ localStorage' = SaveTrip(ls, key, pl, r.dest, r.days, r.mode)
           /\ dom' = CreateItineraryUI(pl, r.days)
           /\ markers' = CreateMarkers(pl)
    /\ lastOp' = [op |-> "build", elements |-> elements, lat |-> r.lat, days |-> r.days]
    /\ UNCHANGED <<currentUser, modeSelect>>

(* ---------------------------------------------------------------------- *)
(* Drag and drop, visited toggle                                           *)
(* ---------------------------------------------------------------------- *)
\* The ids of the items shown in the day lists
ShownIds == UNION {Range(dom[c].items) : c \in 1..Len(dom)}

RemoveItem(items, id) == SelectFrom(items, 1, Range(items) \ {id})

InsertAt(items, k, id) == SubSeq(items, 1, k) \o <<id>> \o SubSeq(items, k + 1, Len(items))

\* Sortable moves the dragged item to index k of the list of container `to`
DropItem(d, id, to, k) ==
    [c \in 1..Len(d) |->
        [d[c] EXCEPT !.items = IF c = to THEN InsertAt(RemoveItem(@, id), k, id)
                                ELSE RemoveItem(@, id)]]

\* The whole day of the dragged place moved along with it
MovePlaceWithDay(pl, idx, newDayIndex) ==
    [i \in 1..Len(pl) |->
        IF pl[i].day = pl[idx].day THEN [pl[i] EXCEPT !.day = newDayIndex] ELSE pl[i]]

\* The dragged place given the position of its new list, counted from 1
MovePlaceOneBased(pl, idx, newDayIndex) ==
    [i \in 1..Len(pl) |-> IF i = idx THEN [pl[i] EXCEPT !.day = newDayIndex + 1] ELSE pl[i]]

\* The dragged place added once more with its new day, the old entry kept
MovePlaceCopy(pl, idx, newDayIndex) ==
    Append(pl, [pl[idx] EXCEPT !.day = newDayIndex])

\* poi.day = newDayIndex (line 289)
MovePlace(pl, idx, newDayIndex) ==
    [i \in 1..Len(pl) |-> IF i = idx THEN [pl[i] EXCEPT !.day = newDayIndex] ELSE pl[i]]

\* The body of onEnd of a day's list (lines 284-292): the item with data-id
\* id was dropped at index k of the list of the day newDayIndex.
PoiDropped(id, newDayIndex, k) ==
    /\ LET idx == FindPlace(places, id)
       IN  IF idx = 0
           THEN UNCHANGED <<places, markers, localStorage>>
           ELSE LET pl == MovePlace(places, idx, newDayIndex)
                IN  /\ places' = pl
                    /\ markers' = UpdateMarkerColors(pl, markers)
                    /\ localStorage' = SaveTrip(localStorage, currentTripKey, pl,
                                                currentDest, currentDays, currentMode)
    /\ lastOp' = [op |-> "move", id |-> id, to |-> newDayIndex, index |-> k]
    /\ UNCHANGED <<currentUser, currentTripKey, currentDest, currentDays, currentMode,
                   modeSelect, requests>>

\* onEnd of a day's list (lines 283-293): the item of place id was dropped at
\* index k of the list of container `to`.
MovePOI(id, to, k) ==
    /\ id \in ShownIds
    /\ to \in 1..Len(dom)
    /\ k \in 0..Len(RemoveItem(dom[to].items, id))
    /\ dom' = DropItem(dom, id, to, k)
    /\ PoiDropped(id, dom[to].dayIndex, k)

\* onEnd of a day's list for an item whose data-id is the id of no place
MoveUnknownPOI(id, to) ==
    /\ \A i \in 1..Len(places) : places[i].id # id
    /\ to \in 1..Len(dom)
    /\ dom' = dom
    /\ PoiDropped(id, dom[to].dayIndex, 0)

\* Sortable moves the container at position a to position b
DropContainer(d, a, b) ==
    LET rest == SubSeq(d, 1, a - 1) \o SubSeq(d, a + 1, Len(d))
    IN  SubSeq(rest, 1, b - 1) \o <<d[a]>> \o SubSeq(rest, b, Len(rest))

\* mapping[oldIndex] = newIndex over the containers in their new order
\* (lines 254-265)
DayMapping(d) ==
    [old \in {d[j].dayIndex : j \in 1..Len(d)} |->
        (CHOOSE j \in 1..Len(d) :
            d[j].dayIndex = old /\ \A l \in (j + 1)..Len(d) : d[l].dayIndex # old) - 1]

\* The remap applied in part: only places whose day moved to a later position
RemapDaysPartial(pl, mapping) ==
    [i \in 1..Len(pl) |->
        [pl[i] EXCEPT !.day = IF @ \in DOMAIN mapping /\ mapping[@] > @ THEN mapping[@] ELSE @]]

\* places.forEach(p => { p.day = mapping[p.day]; }) (lines 267-269)
RemapDays(pl, mapping) ==
    [i \in 1..Len(pl) |->
        [pl[i] EXCEPT !.day = IF @ \in DOMAIN mapping THEN mapping[@] ELSE Undefined]]

\* onEnd of the itinerary container (lines 252-275): the day container at
\* position a was dropped at position b.
ReorderDays(a, b) ==
    /\ a \in 1..Len(dom)
    /\ b \in 1..Len(dom)
    /\ LET pl == RemapDays(places, DayMapping(DropContainer(dom, a, b)))
       IN  /\ places' = pl
           /\ dom' = CreateItineraryUI(pl, currentDays)
           /\ markers' = UpdateMarkerColors(pl, markers)
           /\ localStorage' = SaveTrip(localStorage, currentTripKey, pl,
                                       currentDest, currentDays, currentMode)
    /\ lastOp' = [op |-> "reorder", a |-> a, b |-> b]
    /\ UNCHANGED <<currentUser, currentTripKey, currentDest, currentDays, currentMode,
                   modeSelect, requests>>

\* p.visited = !p.visited (line 405)
FlipVisited(pl, idx) ==
    [i \in 1..Len(pl) |-> IF i = idx THEN [pl[i] EXCEPT !.visited = ~@] ELSE pl[i]]

\* toggleVisited(id) (lines 402-423)
ToggleVisitedCalled(id) ==
    /\ LET idx == FindPlace(places, id)
       IN  IF idx = 0
           THEN UNCHANGED <<places, markers, localStorage>>
           ELSE LET pl == FlipVisited(places, idx)
                IN  /\ places' = pl
                    /\ markers' = UpdateMarkerColors(pl, markers)
                    /\ localStorage' = SaveTrip(localStorage, currentTripKey, pl,
                                                currentDest, currentDays, currentMode)
    /\ lastOp' = [op |-> "toggle", id |-> id,
                   visited |-> \E i \in 1..Len(places) : places[i].id = id /\ places[i].visited,
                   marker |-> id \in DOMAIN markers]
    /\ UNCHANGED <<dom, currentUser, currentTripKey, currentDest, currentDays,
                   currentMode, modeSelect, requests>>

\* toggleVisited(id) called from the check icon of a shown item or from the
\* button of a marker's popup
ToggleVisited(id) ==
    /\ id \in ShownIds \cup DOMAIN markers
    /\ ToggleVisitedCalled(id)

\* toggleVisited(id) called with the id of no place
ToggleUnknown(id) ==
    /\ \A i \in 1..Len(places) : places[i].id # id
    /\ ToggleVisitedCalled(id)

(* ---------------------------------------------------------------------- *)
(* The popup of a marker and the description fetched for it                *)
(* ---------------------------------------------------------------------- *)
\* data.extract || '' of the Wikipedia answer; '' also when the fetch fails
Summaries == {"", "An extract."}

\* showPlacePopup(p) from the click on the marker of the place with this id
\* (lines 316-318, 346-385): a place whose description is not loaded has it
\* fetched. The closure holds the place object p itself.
ShowPlacePopup(id) ==
    /\ id \in DOMAIN markers
    /\ LET idx == FindPlace(places, id)
       IN  /\ idx > 0
           /\ IF places[idx].descriptionLoaded
              THEN requests' = requests
              ELSE /\ BagCardinality(requests) - BagCardinality(PlansInFlight(requests))
                        < MaxFetches
                   /\ requests' = requests (+) SetToBag({[stage |-> "summary", id |-> id,
                                                         detached |-> FALSE]})
    /\ lastOp' = [op |-> "other"]
    /\ UNCHANGED <<places, markers, dom, currentUser, currentTripKey, currentDest,
                   currentDays, currentMode, modeSelect, localStorage>>

\* The description written to whichever place now has the id of the fetch
DescribeById(pl, f, summary) ==
    [i \in 1..Len(pl) |->
        IF pl[i].id = f.id
        THEN [pl[i] EXCEPT !.description = IF summary = "" THEN "No description available."
                                           ELSE summary,
                           !.descriptionLoaded = TRUE]
        ELSE pl[i]]

\* p.description = summary || 'No description available.';
\* p.descriptionLoaded = true (lines 376-378), on the object p of the closure:
\* one of places unless places was assigned a new array since.
Describe(pl, f, summary) ==
    IF f.detached THEN pl
    ELSE [i \in 1..Len(pl) |->
            IF pl[i].id = f.id
            THEN [pl[i] EXCEPT !.description = IF summary = "" THEN "No description available."
                                               ELSE summary,
                               !.descriptionLoaded = TRUE]
            ELSE pl[i]]

\* The promise of fetchWikipediaSummary resolves (lines 375-379); the trip is
\* not saved.
SummaryArrives(f, summary) ==
    /\ f \in BagToSet(requests)
    /\ f.stage = "summary"
    /\ requests' = requests (-) SetToBag({f})
    /\ places' = Describe(places, f, summary)
    /\ lastOp' = [op |-> "summary", id |-> f.id, detached |-> f.detached]
    /\ UNCHANGED <<markers, dom, currentUser, currentTripKey, currentDest, currentDays,
                   currentMode, modeSelect, localStorage>>

(* ---------------------------------------------------------------------- *)
(* The planner                                                             *)
(* ---------------------------------------------------------------------- *)
NodeIds(n) == {ToString(i) : i \in 1..n}

Next ==
    \/ \E u \in UserInputs(Users), pw \in Passwords : HandleLogin(u, pw)
    \/ Reload
    \/ HandleLogout
    \/ \E m \in Modes : ChangeMode(m)
    \/ \E d \in DestInputs, s \in StayInputs({PlanDays}) : HandlePlan(d, s)
    \/ \E r \in BagToSet(requests) : GeocodeFails(r)
    \/ \E r \in BagToSet(requests), lat \in Origins(MaxNodes) : GeocodeFinds(r, lat)
    \/ \E r \in BagToSet(requests) : OverpassFails(r)
    \/ \E r \in BagToSet(requests), e \in PlanResponses : OverpassAnswers(r, e)
    \/ \E id \in NodeIds(MaxNodes), to \in 1..PlanDays, k \in 0..MaxNodes : MovePOI(id, to, k)
    \/ \E a \in 1..PlanDays, b \in 1..PlanDays : ReorderDays(a, b)
    \/ \E id \in NodeIds(MaxNodes) : ToggleVisited(id)

Spec == Init /\ [][Next]_vars

(* ---------------------------------------------------------------------- *)
(* The build step alone, over larger answers: a user is logged in and one  *)
(* plan request awaits the answer of Overpass.                             *)
(* ---------------------------------------------------------------------- *)
InitBuild ==
    /\ places = <<>>
    /\ markers = <<>>
    /\ dom = <<>>
    /\ currentUser \in Users
    /\ currentTripKey = <<>>
    /\ currentDest = <<>>
    /\ currentDays = 0
    /\ currentMode = "driving"
    /\ modeSelect = "driving"
    /\ localStorage = LoggedInStore(currentUser)
    /\ \E dest \in Dests, days \in 1..BuildDays, lat \in Origins(BuildNodes) :
          requests = SetToBag({[dest |-> dest, days |-> days, mode |-> "driving",
                                stage |-> "overpass", lat |-> lat]})
    /\ lastOp = [op |-> "other"]

NextBuild ==
    \E r \in BagToSet(requests), e \in BuildResponses : OverpassAnswers(r, e)

SpecBuild == InitBuild /\ [][NextBuild]_vars

(* ---------------------------------------------------------------------- *)
(* Editing a planned trip of EditDays days: a user is logged in, one plan  *)
(* request awaits the answer of Overpass, and the user then edits the      *)
(* itinerary that was built.                                               *)
(* ---------------------------------------------------------------------- *)
InitEdit ==
    /\ places = <<>>
    /\ markers = <<>>
    /\ dom = <<>>
    /\ currentUser \in Users
    /\ currentTripKey = <<>>
    /\ currentDest = <<>>
    /\ currentDays = 0
    /\ currentMode = "driving"
    /\ modeSelect = "driving"
    /\ localStorage = LoggedInStore(currentUser)
    /\ \E dest \in Dests, lat \in {0} :
          requests = SetToBag({[dest |-> dest, days |-> EditDays, mode |-> "driving",
                                stage |-> "overpass", lat |-> lat]})
    /\ lastOp = [op |-> "other"]

NextEdit ==
    \/ Reload
    \/ \E r \in BagToSet(requests), e \in EditResponses : OverpassAnswers(r, e)
    \/ \E id \in NodeIds(EditNodes), to \in 1..EditDays, k \in 0..EditNodes : MovePOI(id, to, k)
    \/ \E a \in 1..EditDays, b \in 1..EditDays : ReorderDays(a, b)
    \/ \E id \in NodeIds(EditNodes) : ToggleVisited(id)

SpecEdit == InitEdit /\ [][NextEdit]_vars

(* ---------------------------------------------------------------------- *)
(* Editing as above, with the handlers also called for ids that no place   *)
(* of the trip has.                                                        *)
(* ---------------------------------------------------------------------- *)
NextStale ==
    \/ NextEdit
    \/ \E id \in NodeIds(EditNodes), to \in 1..EditDays : MoveUnknownPOI(id, to)
    \/ \E id \in NodeIds(EditNodes) : ToggleUnknown(id)

SpecStale == InitEdit /\ [][NextStale]_vars

(* ---------------------------------------------------------------------- *)
(* Editing as above, while the stored trip payloads are not safe from the  *)
(* outside: another script of the origin or the browser's storage          *)
(* inspector removes one or overwrites it with a malformed payload.        *)
(* ---------------------------------------------------------------------- *)
\* The keys of the stored trip payloads
TripKeys == {k \in DOMAIN localStorage : \E i \in 1..Len(k) : k[i] = "_trip_"}

\* The payload under key k is removed
RemoveStored(k) ==
    /\ k \in TripKeys
    /\ localStorage' = Without(localStorage, k)
    /\ lastOp' = [op |-> "other"]
    /\ UNCHANGED <<places, markers, dom, currentUser, currentTripKey, currentDest,
                   currentDays, currentMode, modeSelect, requests>>

\* The payload under key k is overwritten with the malformed payload bad
CorruptStored(k, bad) ==
    /\ k \in TripKeys
    /\ localStorage[k] # bad
    /\ localStorage' = With(localStorage, k, bad)
    /\ lastOp' = [op |-> "other"]
    /\ UNCHANGED <<places, markers, dom, currentUser, currentTripKey, currentDest,
                   currentDays, currentMode, modeSelect, requests>>

NextStore ==
    \/ NextEdit
    \/ \E k \in TripKeys : RemoveStored(k)
    \/ \E k \in TripKeys, bad \in Malformed : CorruptStored(k, bad)

SpecStore == InitEdit /\ [][NextStore]_vars

(* ---------------------------------------------------------------------- *)
(* Editing a planned trip of ColorDays days, more days than the palette    *)
(* has colours.  Places are dropped at the head of a day's list, and the   *)
(* first day is dragged away or another day is dragged to the front.       *)
(* ---------------------------------------------------------------------- *)
InitColors ==
    /\ places = <<>>
    /\ markers = <<>>
    /\ dom = <<>>
    /\ currentUser \in Users
    /\ currentTripKey = <<>>
    /\ currentDest = <<>>
    /\ currentDays = 0
    /\ currentMode = "driving"
    /\ modeSelect = "driving"
    /\ localStorage = LoggedInStore(currentUser)
    /\ \E dest \in Dests, lat \in {0} :
          requests = SetToBag({[dest |-> dest, days |-> ColorDays, mode |-> "driving",
                                stage |-> "overpass", lat |-> lat]})
    /\ lastOp = [op |-> "other"]

NextColors ==
    \/ Reload
    \/ \E r \in BagToSet(requests), e \in EditResponses : OverpassAnswers(r, e)
    \/ \E id \in NodeIds(EditNodes), to \in 1..ColorDays : MovePOI(id, to, 0)
    \/ \E c \in 1..ColorDays : ReorderDays(1, c) \/ ReorderDays(c, 1)
    \/ \E id \in NodeIds(EditNodes) : ToggleVisited(id)

SpecColors == InitColors /\ [][NextColors]_vars

(* ---------------------------------------------------------------------- *)
(* Descriptions: a user is logged in, one plan request awaits the answer   *)
(* of Overpass; the user opens popups of the trip that is built and plans  *)
(* again while descriptions are being fetched.                             *)
(* ---------------------------------------------------------------------- *)
InitFetch ==
    /\ places = <<>>
    /\ markers = <<>>
    /\ dom = <<>>
    /\ currentUser \in Users
    /\ currentTripKey = <<>>
    /\ currentDest = <<>>
    /\ currentDays = 0
    /\ currentMode = "driving"
    /\ modeSelect = "driving"
    /\ localStorage = LoggedInStore(currentUser)
    /\ \E dest \in Dests, lat \in {0} :
          requests = SetToBag({[dest |-> dest, days |-> PlanDays, mode |-> "driving",
                                stage |-> "overpass", lat |-> lat]})
    /\ lastOp = [op |-> "other"]

NextFetch ==
    \/ Reload
    \/ \E d \in DestInputs, s \in StayInputs({PlanDays}) : HandlePlan(d, s)
    \/ \E r \in BagToSet(requests), lat \in {0} : GeocodeFinds(r, lat)
    \/ \E r \in BagToSet(requests), e \in PlanResponses : OverpassAnswers(r, e)
    \/ \E id \in NodeIds(MaxNodes) : ShowPlacePopup(id)
    \/ \E f \in BagToSet(requests), t \in Summaries : SummaryArrives(f, t)

SpecFetch == InitFetch /\ [][NextFetch]_vars

(* ---------------------------------------------------------------------- *)
(* Two plan requests in flight: the user asked for a plan to be driven,    *)
(* switched the travel mode to walking while handlePlan awaited the        *)
(* geocoder, and asked again.  Each handlePlan call resumes when its own   *)
(* fetch settles, and nothing orders the two.                              *)
(* ---------------------------------------------------------------------- *)
\* The request issued first
FirstPlan ==
    [dest |-> <<"Rome">>, days |-> PlanDays, mode |-> "driving", stage |-> "geocode",
     lat |-> 0]

\* The request issued second
SecondPlan == [FirstPlan EXCEPT !.mode = "walking"]

InitRace ==
    /\ places = <<>>
    /\ markers = <<>>
    /\ dom = <<>>
    /\ currentUser \in Users
    /\ currentTripKey = <<>>
    /\ currentDest = <<>>
    /\ currentDays = 0
    /\ currentMode = "walking"
    /\ modeSelect = "walking"
    /\ localStorage = LoggedInStore(currentUser)
    /\ requests = SetToBag({FirstPlan, SecondPlan})
    /\ lastOp = [op |-> "other"]

NextRace ==
    \/ \E r \in BagToSet(requests), lat \in Origins(MaxNodes) : GeocodeFinds(r, lat)
    \/ \E r \in BagToSet(requests), e \in PlanResponses : OverpassAnswers(r, e)
    \/ \E id \in NodeIds(MaxNodes) : ToggleVisited(id)

SpecRace == InitRace /\ [][NextRace]_vars

(* ---------------------------------------------------------------------- *)
(* Several users and destinations on one browser.  User names and          *)
(* destinations are free text (trimmed), so either may contain the text    *)
(* "_trip_" that the key template puts between them.                       *)
(* ---------------------------------------------------------------------- *)
KeyUsers == {<<"a">>, <<"a", "_trip_", "b">>}

KeyDests == {<<"c">>, <<"b", "_trip_", "c">>}

\* The password field may also hold a second password: a user may register
\* with either and mistype it later
KeyPasswords == Passwords \cup {<<"other">>}

KeyResponses == Responses(KeyNodes)

NextKeys ==
    \/ \E u \in UserInputs(KeyUsers), pw \in KeyPasswords : HandleLogin(u, pw)
    \/ HandleLogout
    \/ Reload
    \/ \E d \in KeyDests, s \in StayInputs({PlanDays}) : HandlePlan(d, s)
    \/ \E r \in BagToSet(requests), lat \in {0} : GeocodeFinds(r, lat)
    \/ \E r \in BagToSet(requests), e \in KeyResponses : OverpassAnswers(r, e)

SpecKeys == Init /\ [][NextKeys]_vars

(* ---------------------------------------------------------------------- *)
(* Claims                                                                  *)
(* ---------------------------------------------------------------------- *)
\* The in-memory Trip
Trip == [places |-> places, dest |-> currentDest, days |-> currentDays, mode |-> currentMode]

\* The ids of the places that are not visited
UnvisitedIds == {places[i].id : i \in {j \in 1..Len(places) : ~places[j].visited}}

\* C1: after every completed build, POI move, day reorder and visited toggle,
\* the payload stored under the current trip key, parsed, equals the in-memory
\* Trip: the places with their day and visited flag, the destination, the day
\* count and the travel mode.
C1_PersistedEqualsTrip ==
    lastOp.op \in {"build", "move", "reorder", "toggle"} =>
        /\ currentTripKey \in DOMAIN localStorage
        /\ ParseTrip(localStorage[currentTripKey]) = Trip

\* A visited toggle has just been saved for a trip of two places, one of them
\* visited and on the second day
C1_Witness ==
    /\ lastOp.op = "toggle"
    /\ Len(places) = 2
    /\ \E i \in 1..2 : places[i].visited /\ places[i].day = 1
    /\ ParseTrip(localStorage[currentTripKey]).places = places

\* C2: the ids that have a marker are exactly the ids of the places that are
\* not visited.
C2_MarkersAreUnvisited == DOMAIN markers = UnvisitedIds

\* C3: toggleVisited(id) called a second time right after a first call
\* restores the visited flag and the marker presence the place had before the
\* first call.
C3_ToggleTwiceRestores ==
    [][(lastOp.op = "toggle" /\ lastOp'.op = "toggle" /\ lastOp'.id = lastOp.id) =>
          /\ \A i \in 1..Len(places') :
                places'[i].id = lastOp.id => places'[i].visited = lastOp.visited
          /\ (lastOp.id \in DOMAIN markers') = lastOp.marker]_vars

\* The number of named candidates of the last build
BuiltN == Cardinality({i \in 1..Len(lastOp.elements) : lastOp.elements[i].named})

\* The distance of a place from the origin of the last build
BuiltDistance(p) == Abs(p.lat - lastOp.lat)

\* The number of places of day d
CountOfDay(d) == Cardinality({i \in 1..Len(places) : places[i].day = d})

\* The number of items of place id in the list of container c
ShownIn(c, id) == Cardinality({k \in 1..Len(dom[c].items) : dom[c].items[k] = id})

\* C4: for D >= 1 days and N >= 0 named candidates the build yields exactly
\* min(N, 5 * D) places, each of a day in 0..D-1, each a named candidate taken
\* once, and each in the list of exactly one day, once.
C4_BuildCount ==
    lastOp.op = "build" =>
        /\ Len(places) = Min(BuiltN, 5 * lastOp.days)
        /\ \A i \in 1..Len(places) :
              /\ places[i].day >= 0 /\ places[i].day < lastOp.days
              /\ \E j \in 1..Len(lastOp.elements) :
                    lastOp.elements[j].named /\ ToString(lastOp.elements[j].id) = places[i].id
              /\ \A j \in 1..Len(places) : places[j].id = places[i].id => j = i
              /\ \E c \in 1..Len(dom) :
                    /\ ShownIn(c, places[i].id) = 1
                    /\ \A c2 \in 1..Len(dom) : c2 # c => ShownIn(c2, places[i].id) = 0

\* A build for one day out of more than five named candidates
C4_Witness ==
    /\ lastOp.op = "build"
    /\ lastOp.days = 1
    /\ BuiltN > 5
    /\ Len(places) = 5

\* C5: the places built are in ascending order of distance from the origin,
\* no named candidate left out is nearer than a place taken, and the day
\* indices do not decrease along the list.
C5_BuildNearestSorted ==
    lastOp.op = "build" =>
        /\ \A i, j \in 1..Len(places) :
              i < j => /\ BuiltDistance(places[i]) <= BuiltDistance(places[j])
                       /\ places[i].day <= places[j].day
        /\ Len(places) = Min(BuiltN, 5 * lastOp.days)
        /\ \A e \in Range(lastOp.elements) :
              (e.named /\ \A i \in 1..Len(places) : places[i].id # ToString(e.id)) =>
                  \A i \in 1..Len(places) : BuiltDistance(places[i]) <= BuiltDistance(e)

\* A build for one day that had to rank candidates answered farthest first and
\* to leave the farthest out
C5_Witness ==
    /\ lastOp.op = "build"
    /\ lastOp.days = 1
    /\ BuiltN > 5
    /\ Len(places) = 5
    /\ \E i \in 1..(Len(lastOp.elements) - 1) :
          Abs(lastOp.elements[i].lat - lastOp.lat) > Abs(lastOp.elements[i + 1].lat - lastOp.lat)
    /\ BuiltDistance(places[1]) < BuiltDistance(places[5])

\* C6: the i-th place built (from 0) has day floor(i / ceil(selected / D)); so
\* no day has more than ceil(selected / D) <= 5 places, the days that have
\* places are an initial stretch of 0..D-1, and each of them but the last has
\* exactly ceil(selected / D) places.
C6_BuildSplit ==
    lastOp.op = "build" =>
        LET selected == Len(places)
            D == lastOp.days
            size == (selected + D - 1) \div D
        IN  /\ \A i \in 1..selected : places[i].day = (i - 1) \div size
            /\ size <= 5
            /\ \A d \in 0..(D - 1) :
                  /\ CountOfDay(d) <= size
                  /\ (d > 0 /\ CountOfDay(d) > 0) => CountOfDay(d - 1) > 0
                  /\ (CountOfDay(d) > 0 /\ \E d2 \in (d + 1)..(D - 1) : CountOfDay(d2) > 0)
                        => CountOfDay(d) = size

\* Seven candidates built for two days: four on day 0, three on day 1
C6_Witness ==
    /\ lastOp.op = "build"
    /\ lastOp.days = 2
    /\ BuiltN = 7
    /\ Len(places) = 7
    /\ CountOfDay(0) = 4
    /\ CountOfDay(1) = 3

\* C7: a move of the known place X to the list of day d sets X.day to d,
\* leaves X's id and visited flag and every other place as they were, and the
\* payload stored afterwards records X.day = d.
C7_MoveFrame ==
    [][lastOp'.op = "move" =>
          LET id == lastOp'.id
              x == FindPlace(places, id)
              d == lastOp'.to
          IN  x > 0 =>
                  /\ Len(places') = Len(places)
                  /\ places'[x].day = d
                  /\ places'[x].id = id
                  /\ places'[x].visited = places[x].visited
                  /\ places'[x] = [places[x] EXCEPT !.day = d]
                  /\ \A i \in 1..Len(places) : i # x => places'[i] = places[i]
                  /\ ParseTrip(localStorage'[currentTripKey]).places[x].day = d]_vars

\* A place has just been moved to another day than the one a second place of
\* its old day is still on
C7_Witness ==
    /\ lastOp.op = "move"
    /\ \E i, j \in 1..Len(places) :
          /\ places[i].id = lastOp.id
          /\ places[i].day = lastOp.to
          /\ j # i
          /\ places[j].day # lastOp.to
          /\ ShownIn(lastOp.to + 1, places[j].id) = 0

\* The position of id among the ids s, from 0; Len(s) if it is not among them
RECURSIVE PositionIn(_, _)
PositionIn(s, id) ==
    IF s = <<>> \/ Head(s) = id THEN 0 ELSE 1 + PositionIn(Tail(s), id)

\* C8: after a move to position k of day d, the moved place is the k-th of
\* the places of day d in the order of places, the order that is saved and
\* from which the lists are rebuilt.
C8_MovePositionKept ==
    (lastOp.op = "move" /\ FindPlace(places, lastOp.id) > 0) =>
        PositionIn(ItemsOfDay(places, lastOp.to), lastOp.id) = lastOp.index

\* C9: a move of a place to the day and position it already has changes
\* neither the places nor the markers nor anything stored.
C9_MoveInPlaceIdempotent ==
    [][(lastOp'.op = "move" /\ dom' = dom) =>
              /\ places' = places
              /\ markers' = markers
              /\ localStorage' = localStorage]_vars

\* The position (from 1) the container at position c has after the container
\* at position a was dropped at position b
DroppedTo(a, b, c) ==
    IF c = a THEN b
    ELSE IF a < b /\ a < c /\ c <= b THEN c - 1
    ELSE IF b < a /\ b <= c /\ c < a THEN c + 1
    ELSE c

\* The places after the day container at position a was dropped at position b
DaysDropped(pl, a, b) ==
    RemapDays(pl, DayMapping(DropContainer(CreateItineraryUI(pl, currentDays), a, b)))

\* C10: a reorder of the days sets the day of every place to the new
\* position of its old day, all in one step, and the reorder followed by its
\* inverse gives every place its old day back.
C10_ReorderBijection ==
    /\ [][lastOp'.op = "reorder" =>
            /\ Len(places') = Len(places)
            /\ \A i \in 1..Len(places) :
                  places'[i].day = DroppedTo(lastOp'.a, lastOp'.b, places[i].day + 1) - 1]_vars
    /\ [](\A a, b \in 1..Len(dom) :
            DaysDropped(DaysDropped(places, a, b), b, a) = places)

\* The first of three days has just been dragged behind the last, with places
\* on two of the days
C10_Witness ==
    /\ lastOp.op = "reorder"
    /\ lastOp.a = 1
    /\ lastOp.b = 3
    /\ \E i, j \in 1..Len(places) : places[i].day = 2 /\ places[j].day = 0

\* C11: in every state reached by build, load of a saved trip, POI move, day
\* reorder and visited toggle, every place of the Trip has a day that is an
\* integer with 0 <= day < dayCount.
C11_DayInRange ==
    \A i \in 1..Len(places) :
        /\ places[i].day \in Int
        /\ places[i].day >= 0
        /\ places[i].day < currentDays

\* A place has just been moved to the last day of the trip, and the trip is
\* stored with it
C11_Witness ==
    /\ lastOp.op = "move"
    /\ currentDays = EditDays
    /\ \E i \in 1..Len(places) :
          /\ places[i].id = lastOp.id
          /\ places[i].day = currentDays - 1
          /\ ParseTrip(localStorage[currentTripKey]).places[i].day = currentDays - 1

\* The ids of the places pl, in the order of pl
IdsOf(pl) == [i \in 1..Len(pl) |-> pl[i].id]

\* How many of the places pl have the id
IdCount(pl, id) == Cardinality({i \in 1..Len(pl) : pl[i].id = id})

\* No two of the places pl have the same id
DistinctIds(pl) == \A i, j \in 1..Len(pl) : pl[i].id = pl[j].id => i = j

\* C12: a POI move, a day reorder and a visited toggle add, remove and
\* duplicate no place: every id is in the Trip as often after the operation
\* as before it, and ids that are pairwise distinct stay pairwise distinct.
C12_IdsKept ==
    [][lastOp'.op \in {"move", "reorder", "toggle"} =>
          /\ Len(places') = Len(places)
          /\ \A id \in Range(IdsOf(places)) \cup Range(IdsOf(places')) :
                IdCount(places', id) = IdCount(places, id)
          /\ DistinctIds(places) => DistinctIds(places')]_vars

\* The second of two places has just been moved to another day than the first
C12_Witness ==
    /\ lastOp.op = "move"
    /\ Len(places) = 2
    /\ DistinctIds(places)
    /\ places[2].id = lastOp.id
    /\ places[2].day = lastOp.to
    /\ places[1].day # lastOp.to

\* C13: saveTrip followed by loadTrip on the same key, as a page loaded anew
\* does it, yields a Trip equal by value to the one saved: the same places in
\* the same order with the same day and visited values, the same destination,
\* day count and travel mode.
C13_SaveLoadRoundTrip ==
    currentTripKey # <<>> =>
        LET ls == SaveTrip(localStorage, currentTripKey, places, currentDest,
                           currentDays, currentMode)
            pg == LoadTrip([FreshPage EXCEPT !.key = currentTripKey], ls)
        IN  [places |-> pg.places, dest |-> pg.dest, days |-> pg.days, mode |-> pg.mode]
                = Trip

\* The page has just been loaded anew and shows the saved trip: two places,
\* one of them visited, one on the second day, to be walked
C13_Witness ==
    /\ lastOp.op = "load"
    /\ currentTripKey \in DOMAIN localStorage
    /\ ParseTrip(localStorage[currentTripKey]) = Trip
    /\ Len(places) = 2
    /\ currentMode = "walking"
    /\ \E i \in 1..2 : places[i].visited
    /\ \E i \in 1..2 : places[i].day = 1

\* The ids that have a marker on the map
MarkerSet == DOMAIN markers

\* The destination field holds nothing but blanks
BlankInput(d) == \A i \in 1..Len(d) : d[i] = " "

\* The stay length field holds nothing, no number, or a number below 1
NoStay == {<<>>, <<"x">>, <<"0">>, <<"-", "1">>}

\* C16: a plan request with an empty destination, or with a day count that
\* is missing, not a number or below 1, is rejected before anything is
\* changed: the Trip, the current trip key, the markers, the last-trip
\* pointer and every stored payload stay as they are, and no request is sent
\* to a collaborator.
C16_PlanRejectedFrame ==
    [][\A d \in DestInputs, s \in StayInputs({PlanDays}) :
          (HandlePlan(d, s) /\ (BlankInput(d) \/ s \in NoStay)) =>
              /\ UNCHANGED <<places, currentDest, currentDays, currentMode, currentTripKey,
                             markers, dom, localStorage>>
              /\ requests' = requests]_vars

\* A plan request has just been rejected while a trip of two places with
\* markers is shown and stored
C16_Witness ==
    /\ lastOp.op = "rejected"
    /\ Len(places) = 2
    /\ MarkerSet # {}
    /\ currentTripKey \in DOMAIN localStorage
    /\ LastTripKey(currentUser) \in DOMAIN localStorage

\* C17: when geocoding or the search for places fails during a plan request
\* (the fetch throws, the answer does not parse, or no destination is found),
\* the Trip there was, its key, its markers and every stored payload stay as
\* they are.
C17_PlanFailureFrame ==
    [][lastOp'.op = "failed" =>
          UNCHANGED <<places, currentDest, currentDays, currentMode, currentTripKey,
                      markers, dom, localStorage>>]_vars

\* The search for places has just failed while a trip of two places with
\* markers is shown and stored
C17_Witness ==
    /\ lastOp.op = "failed"
    /\ lastOp.stage = "overpass"
    /\ Len(places) = 2
    /\ MarkerSet # {}
    /\ currentTripKey \in DOMAIN localStorage

\* C18: a mutation runs to completion before the next user event is
\* processed, so of two plan requests the one issued later makes the Trip in
\* effect once both have finished: here the trip to be walked.
C18_LaterPlanWins ==
    (requests = EmptyBag /\ lastOp.op = "build") => currentMode = SecondPlan.mode

\* C15: toggleVisited, or the move of an item, for an id that no place of the
\* Trip has does nothing: the Trip, the markers and everything stored stay as
\* they are.
C15_UnknownIdNoOp ==
    [][(lastOp'.op \in {"toggle", "move"} /\ \A i \in 1..Len(places) : places[i].id # lastOp'.id) =>
          /\ UNCHANGED <<places, currentDest, currentDays, currentMode, currentTripKey>>
          /\ markers' = markers
          /\ localStorage' = localStorage]_vars

\* An item with an id that no place has was just dropped on a day of a trip
\* of two places that have markers
C15_Witness ==
    /\ lastOp.op = "move"
    /\ \A i \in 1..Len(places) : places[i].id # lastOp.id
    /\ Len(places) = 2
    /\ Cardinality(MarkerSet) = 2
    /\ currentTripKey \in DOMAIN localStorage

\* The page as the start-up code leaves it right before it calls loadTrip:
\* nothing shown, the key and the meta data taken from the last-trip pointer
BeforeLoad ==
    LET meta == localStorage[LastTripKey(currentUser)]
    IN  [FreshPage EXCEPT !.dest = meta.dest, !.days = meta.days,
                          !.mode = OrDriving(meta.mode),
                          !.modeSelect = OrDriving(meta.mode),
                          !.key = TripKey(currentUser, meta.dest, meta.days)]

\* Nothing, or a malformed payload, is stored under key k
NoPayload(k) == k \notin DOMAIN localStorage \/ localStorage[k] \in Malformed

\* C14: loadTrip for a key under which nothing or a corrupted (malformed)
\* payload is stored fails with no error and leaves the places, the
\* destination, the day count, the travel mode and the markers as they were
\* before the load.
C14_LoadFailureFrame ==
    (/\ lastOp.op = "load"
     /\ currentUser # <<>>
     /\ LastTripKey(currentUser) \in DOMAIN localStorage
     /\ NoPayload(BeforeLoad.key)) =>
        PageNow = BeforeLoad

\* C20: after every build, load, POI move, day reorder and visited toggle,
\* every marker there is belongs to a place and has the colour
\* palette[day mod 8] of the day that place is on.
C20_MarkerColorOfDay ==
    \A id \in MarkerSet :
        \E i \in 1..Len(places) :
            /\ places[i].id = id
            /\ markers[id] = places[i].day % PaletteSize

\* A place has just been moved to the ninth day and its marker has the first
\* colour of the palette, while the marker of a place on the second day has
\* the second
C20_Witness ==
    /\ lastOp.op = "move"
    /\ \E i, j \in 1..Len(places) :
          /\ places[i].id = lastOp.id
          /\ places[i].day = PaletteSize
          /\ places[i].id \in MarkerSet
          /\ markers[places[i].id] = 0
          /\ places[j].day = 1
          /\ places[j].id \in MarkerSet
          /\ markers[places[j].id] = 1

\* C19: a description fetch that resolves after the Trip of its place was
\* replaced by a new plan changes no place of the current Trip, neither
\* description nor descriptionLoaded, even when the new Trip has a place with
\* the same id.
C19_LateDescriptionDiscarded ==
    [][(lastOp'.op = "summary" /\ lastOp'.detached) => places' = places]_vars

\* A description has just arrived for a place of the trip before; the
\* current trip has a place of the same id, whose description is not loaded
C19_Witness ==
    /\ lastOp.op = "summary"
    /\ lastOp.detached
    /\ \E i \in 1..Len(places) :
          /\ places[i].id = lastOp.id
          /\ ~places[i].descriptionLoaded
          /\ places[i].description = ""

\* C21: after a session restart (a reload with a user logged in, or a login)
\* the destination, the day count and the travel mode in memory are those of
\* the user's last-trip pointer; a travel mode chosen before the restart is
\* still in effect.
C21_ResumeFromPointer ==
    (/\ lastOp.op = "load"
     /\ currentUser # <<>>
     /\ LastTripKey(currentUser) \in DOMAIN localStorage) =>
        LET meta == localStorage[LastTripKey(currentUser)]
        IN  /\ currentDest = meta.dest
            /\ currentDays = meta.days
            /\ currentMode = meta.mode

\* The payload of the trip planned by user u for destination d and n days is
\* stored under the key of (u, d, n)
PersistedFor(ls, u, d, n) ==
    /\ TripKey(u, d, n) \in DOMAIN ls
    /\ ParseTrip(ls[TripKey(u, d, n)]).dest = d
    /\ ParseTrip(ls[TripKey(u, d, n)]).days = n

\* C22: planning a trip for (user, destination, dayCount) writes only the
\* payload under the key of that combination and the last-trip pointer of
\* that user: the payload persisted for every other combination is unchanged
\* and still found under its own key.
C22_PlanWritesOwnKeyOnly ==
    [][lastOp'.op = "build" =>
          \A u \in KeyUsers, d \in KeyDests, n \in 1..PlanDays :
              (/\ <<u, d, n>> # <<currentUser, currentDest', currentDays'>>
               /\ PersistedFor(localStorage, u, d, n)) =>
                  /\ TripKey(u, d, n) \in DOMAIN localStorage'
                  /\ localStorage'[TripKey(u, d, n)] = localStorage[TripKey(u, d, n)]]_vars

====
